---- MODULE Spec2Model ----
(***************************************************************************)
(* Model of the isolated execution engine of sandboxjs:                    *)
(*   SandboxEngine  (src/src/core/sandbox.js)                              *)
(*   TemplateEngine (src/src/ui/sandbox.js)                                *)
(*   LibraryManager (src/src/libraries/manager.js)                         *)
(* The engine runs on the browser's single event loop: every handler       *)
(* (reset, the message listener, the kill-timer callback, destroy) runs to *)
(* completion; the engine is suspended only at the awaits of the template  *)
(* load (the fetch, then response.text()) inside initialize and at the     *)
(* start of execute.                                                       *)
(***************************************************************************)
EXTENDS Integers, Sequences, FiniteSets, TLC

(* ------------------------------ bounds --------------------------------- *)
\* number of execute calls that may generate a secret
MaxRuns == 2
\* highest handle a reset() or createIframe() call of the application may
\* give a new iframe (the constructor creates iframe 1)
MaxCtx == 3
\* number of generateScriptTags calls that may be suspended at the same time
MaxBuilds == 2
\* number of template loads that may be awaited at the same time
MaxPending == 2
\* number of library ids that generateId may hand out
MaxIds == 2
\* number of messages the bootstrap programs may post
MaxPosts == 3
\* number of callbacks that may be registered with the event emitter
MaxListeners == 2
\* length, in tokens, of the template texts handed to validateTemplate
MaxTemplateLen == 4

(* --------------------------- program constants -------------------------- *)
DEFAULT_TIMEOUT_MS == 4000
\* options.timeLimit as given to the constructor; 0 stands for "not given"
TimeLimitOptions == {0, 1000}

(* ------------------------------ values --------------------------------- *)
NULL == 0
\* this.iframe after destroy()
NoCtx == -1
\* iframe?.contentWindow when this.iframe is null
Undefined == -2
\* a window that is not the content window of any iframe of the engine
Outside == 0
\* a secret value that generateSecret never returned
Forged == -1
NoType == "none"
NoCode == "-"
Blank == [secret |-> Forged, code |-> NoCode]

\* codes handed to execute: "bad" does not parse, "ok" parses and its block
\* returns, "loop" parses and keeps the context busy forever (timers,
\* intervals, pending promises)
Codes == {"bad", "ok", "loop"}
\* data.type of an envelope; NoType is an envelope without a type
Types == {"log", "info", "warn", "error", "done", "custom", NoType}
\* data.args of an envelope: an array, or a single value
NoPayload == [isArray |-> TRUE, items |-> <<>>]
\* no execute call was made over a run in flight
NoStale == [secret |-> Forged, how |-> "none"]
NoEv == [src |-> Outside, marker |-> FALSE, secret |-> Forged,
         type |-> NoType, args |-> NoPayload]

(* ------------------------- template texts ------------------------------ *)
\* a text is a sequence of tokens; a marker occurring in a text is one token
SECRET == "{{SECRET}}"
USER_CODE == "{{USER_CODE}}"
DYNAMIC_CSP == "{{DYNAMIC_CSP}}"
LIBRARY_SCRIPTS == "{{LIBRARY_SCRIPTS}}"
TEMPLATE_MARKERS == {SECRET, USER_CODE, DYNAMIC_CSP, LIBRARY_SCRIPTS}

\* templateEngine.template before a load and after forceReload(): null
NoTemplate == <<>>
\* getFallbackTemplate(): the markers in the order they occur in the text
getFallbackTemplate ==
  <<"<head>", DYNAMIC_CSP, LIBRARY_SCRIPTS, "<script>", SECRET, USER_CODE,
    "</html>">>
\* a template file with every marker, the secret marker twice
CustomTemplate ==
  <<DYNAMIC_CSP, LIBRARY_SCRIPTS, SECRET, USER_CODE, SECRET>>
Without(text, marker) == SelectSeq(text, LAMBDA t : t # marker)
\* the texts the template file can hold: complete, or lacking one marker
TemplateFiles ==
  {CustomTemplate} \cup {Without(CustomTemplate, m) : m \in TEMPLATE_MARKERS}
\* how a template load ends. While the fetch is pending: the fetch is
\* rejected, the response is not ok, or the fetch is aborted by the timeout.
\* Once an ok response has arrived: response.text() gives the text of the
\* file, or is rejected ("body")
LoadOutcomes ==
  [kind : {"network", "status", "timeout", "body"}, text : {NoTemplate}]
  \cup [kind : {"text"}, text : TemplateFiles]
\* the outcomes that come from response.text()
TextOutcomes == {o \in LoadOutcomes : o.kind \in {"text", "body"}}

\* buildSrcDoc has not been called
NoRender == [called |-> FALSE]

VARIABLES
  timeLimit,      \* this.timeLimit
  iframe,         \* this.iframe: handle of the current context, or NoCtx
  nextCtx,        \* handle the next created iframe gets
  doc,            \* document running in the current iframe (secret, code)
  scripted,       \* handles of the contexts that ever got a bootstrap program
  currentSecret,  \* this.currentSecret
  nextRun,        \* value the next generateSecret call returns
  killTimer,      \* this.killTimer: timer handle or NULL
  timers,         \* timers armed with setTimeout and neither fired nor cleared
  listening,      \* the message listener is registered on the window
  isLoaded,       \* templateEngine.isLoaded
  template,       \* templateEngine.template: a sequence of tokens, <<>> for null
  pendingInit,    \* initialize() calls awaiting their template fetch
  pendingText,    \* initialize() calls awaiting response.text()
  pendingExec,    \* the execute calls awaiting their initialize(): the code
                  \* of each, and where its load is: at the fetch, at
                  \* response.text(), or ended with the call not yet resumed
  fetches,        \* template fetches started since the last forceReload()
  op,             \* the operation or handler that ran last, with its input
  out,            \* the callbacks that operation made, in order
  stale,          \* the run last called over: its secret, and whether the later
                  \* execute call replaced the secret ("valid") or not ("called")
  completed,      \* a done of the installed run has been accepted
  render,         \* a buildSrcDoc call: its arguments and, once made, its result
  libraries,      \* libraryManager.libraries
  allowedDomains, \* libraryManager.allowedDomains
  libraryCache,   \* the urls that are keys of libraryManager.libraryCache
  localStorage,   \* the two items the manager keeps in localStorage
  nextId,         \* number of the id the next generateId call returns
  build,          \* the generateScriptTags calls: the suspended ones, oldest
                  \* first, and the ones the last step resolved
  mop,            \* the manager operation that ran last, its input and result
  mout,           \* the events that operation emitted, in order
  inbox,          \* the message events queued for the window, oldest first
  posted,         \* number of messages the bootstrap programs have posted
  sink,           \* the onMessage calls the message handler made, in order,
                  \* each with the window its message came from
  boot,           \* the bootstrap program that ran last in a context: the
                  \* secret of its document, how its user code block ended,
                  \* its position and the kinds of message it has sent
  listeners,      \* eventEmitter.events.get(event): the listener array of
                  \* one event, empty when the map has no entry for it
  hits,           \* per listener, how often it was invoked since it was
                  \* registered (counted up to 2)
  eop             \* the emitter operation that ran last: for emit, the array
                  \* it found, the listeners it invoked in order, its result

vars == <<timeLimit, iframe, nextCtx, doc, scripted, currentSecret, nextRun,
          killTimer, timers, listening, isLoaded, template, pendingInit,
          pendingText, pendingExec, fetches, op, out, stale, completed, render,
          libraries, allowedDomains, libraryCache, localStorage, nextId,
          build, mop, mout, inbox, posted, sink, boot, listeners, hits, eop>>

engineVars == <<iframe, nextCtx, doc, scripted, currentSecret, nextRun,
                killTimer, timers, listening>>
templateVars == <<isLoaded, template, pendingInit, pendingText, pendingExec,
                  fetches>>
\* what the engine and the template load leave alone
managerVars == <<libraries, allowedDomains, libraryCache, localStorage,
                 nextId, build, mop, mout>>
\* the window's queue of posted messages, and what was forwarded from it
channelVars == <<inbox, posted, sink, boot>>
\* the event emitter
emitterVars == <<listeners, hits, eop>>
restVars == <<render, managerVars, channelVars, emitterVars>>
\* what the library manager leaves alone
sandboxVars == <<timeLimit, engineVars, templateVars, op, out, stale,
                 completed, render, channelVars, emitterVars>>
\* what the event emitter leaves alone
appVars == <<timeLimit, engineVars, templateVars, op, out, stale,
             completed, render, managerVars, channelVars>>

(* ---------------------------- callbacks -------------------------------- *)
\* this.onMessage(type, args)
Msg(type, args) == [cb |-> "message", type |-> type, args |-> args]
\* this.onStatusChange(status)
St(status) == [cb |-> "status", type |-> status, args |-> <<>>]

Op(name, code, ev, threw) ==
  [name |-> name, code |-> code, ev |-> ev, threw |-> threw]

(* ------------------- SandboxEngine: pure pieces ------------------------ *)
\* `new Function(code)` throws a SyntaxError for this code
ParseFails(code) == code = "bad"

validateSyntaxAlwaysValid(code) == [valid |-> TRUE, name |-> "-", error |-> "-"]
\* validateSyntax: the parser's verdict as a result object, never a throw
validateSyntax(code) ==
  IF ParseFails(code)
    THEN [valid |-> FALSE, name |-> "SyntaxError", error |-> "Unexpected token"]
    ELSE [valid |-> TRUE, name |-> "-", error |-> "-"]

\* validation.toString(): `${error.name}: ${error.message}`
ValidationString(v) == v.name \o ": " \o v.error

generateSecretRepeats == currentSecret
\* generateSecret: a value that was never returned before (two random 32-bit
\* words; the model numbers the values in the order they are drawn)
generateSecret == nextRun

\* the stopwatch sign that starts the timeout text: the code units U+23F1
\* U+FE0F, written here by their escapes
STOPWATCH == "\\u23F1\\uFE0F"
\* the timeout message, with `${timeLimit}` in it
TimeoutText(limit) ==
  STOPWATCH \o " Execution timeout (" \o ToString(limit) \o "ms). Sandbox reset."

\* options.timeLimit || DEFAULT_TIMEOUT_MS
TimeLimitOf(option) == IF option = 0 THEN DEFAULT_TIMEOUT_MS ELSE option

\* this.iframe?.contentWindow
ContentWindow(f) == IF f = NoCtx THEN Undefined ELSE f

SourceOkAny(ev) == TRUE
\* line 189: the event comes from the content window of the current iframe
SourceOk(ev) == ev.src = ContentWindow(iframe)

AuthenticExceptErrors(ev) ==
  ev.marker /\ (ev.secret = currentSecret \/ ev.type = "error")
\* line 194: the envelope has the marker and the current secret
Authentic(ev) == ev.marker /\ ev.secret = currentSecret

TypeOfRaw(ev) == ev.type
\* data.type || 'log'
TypeOf(ev) == IF ev.type = NoType THEN "log" ELSE ev.type

\* Array.isArray(data.args) ? data.args : [data.args]
ArgsOf(ev) == IF ev.args.isArray THEN ev.args.items ELSE <<ev.args.items[1]>>

TimeoutCallbacksStatusFirst(limit) ==
  <<Msg("error", <<TimeoutText(limit)>>), St("timeout"), St("reset")>>
\* the callbacks of the kill-timer callback: onMessage, reset(), onStatusChange
TimeoutCallbacks(limit) ==
  <<Msg("error", <<TimeoutText(limit)>>), St("reset"), St("timeout")>>

ArmTimerKeepsOld(pend, old, new) == pend \cup {new}
\* lines 170-171: clear the old kill timer, arm a new one
ArmTimer(pend, old, new) == (pend \ {old}) \cup {new}

ClearKillTimerNoop(pend) == pend
\* clearTimeout(this.killTimer) under `if (this.killTimer)`
ClearKillTimer(pend) == IF killTimer # NULL THEN pend \ {killTimer} ELSE pend

CreateIframeReuses ==
  /\ iframe' = IF iframe = NoCtx THEN nextCtx ELSE iframe
  /\ nextCtx' = IF iframe = NoCtx THEN nextCtx + 1 ELSE nextCtx
  /\ doc' = Blank
\* createIframe: the container is emptied and a new, empty iframe is appended
CreateIframe ==
  /\ iframe' = nextCtx
  /\ nextCtx' = nextCtx + 1
  /\ doc' = Blank

DoResetKeepsTimer(pend) ==
  /\ killTimer' = killTimer
  /\ timers' = pend
  /\ CreateIframe
\* reset(): cancel the pending timer, replace the iframe (the status
\* callback is recorded by the calling action); pend is the set of pending
\* timers when reset() is entered
DoReset(pend) ==
  /\ killTimer' = NULL
  /\ timers' = ClearKillTimer(pend)
  /\ CreateIframe

\* a run is in flight while its kill timer is pending
InFlight == killTimer # NULL /\ doc # Blank

(* ------------------- LibraryManager: values and pure pieces ------------- *)
defaultDomains ==
  <<"cdnjs.cloudflare.com", "unpkg.com", "jsdelivr.net", "code.jquery.com",
    "stackpath.bootstrapcdn.com">>

\* EVENTS
DOMAIN_TRUST_REQUEST == "domain:trust:request"
DOMAIN_ADDED == "domain:added"
DOMAIN_REMOVED == "domain:removed"
LIBRARY_ADDED == "library:added"
LIBRARY_REMOVED == "library:removed"
LIBRARIES_CLEARED == "libraries:cleared"

\* urls handed to addLibrary: a script of a default origin, the same with a
\* leading space, a script of an origin that is not a default, a style
\* sheet, a text that is no URL, and the empty string
Urls ==
  {"https://unpkg.com/a.js", " https://unpkg.com/a.js",
   "https://newcdn.example/lib.js", "https://unpkg.com/a.css", "not a url", ""}
\* origins handed to addDomain and removeDomain
Domains == {"unpkg.com", "newcdn.example", "other.example", ""}
\* what the user answers in the trust dialog; "none": no dialog is attached
Answers == {"none", "confirm", "cancel"}

\* extractDomain: new URL(url).hostname (the URL parser strips leading and
\* trailing spaces), "" standing for the null of an invalid URL
extractDomain(url) ==
  CASE url \in {"https://unpkg.com/a.js", " https://unpkg.com/a.js",
                "https://unpkg.com/a.css"} -> "unpkg.com"
    [] url = "https://newcdn.example/lib.js" -> "newcdn.example"
    [] OTHER -> ""
\* url.match(/\.js(\?.*)?$/i)
IsScriptUrl(url) ==
  url \in {"https://unpkg.com/a.js", " https://unpkg.com/a.js",
           "https://newcdn.example/lib.js"}
\* url.trim()
Trim(url) ==
  IF url = " https://unpkg.com/a.js" THEN "https://unpkg.com/a.js" ELSE url

\* a library object; arg is the url argument of the call that added it (the
\* source's object has no such field, its url field is the trimmed argument)
Lib(id, url, domain, arg) == [id |-> id, url |-> url, domain |-> domain, arg |-> arg]

\* results of addLibrary, and of the operations that return a boolean
Failure(error) ==
  [success |-> FALSE, needsApproval |-> FALSE, domain |-> "", error |-> error]
NeedsApproval(domain) ==
  [success |-> FALSE, needsApproval |-> TRUE, domain |-> domain, error |-> ""]
Success == [success |-> TRUE, needsApproval |-> FALSE, domain |-> "", error |-> ""]
Returned(bool) == IF bool THEN Success ELSE Failure("")

\* eventEmitter.emit(event, {...}): the event and the domain or url it names
Ev(event, arg) == [event |-> event, arg |-> arg]

\* an item of localStorage: absent; a text JSON.parse throws on, or the text
\* null; the JSON text of a list; the JSON text of a number, a boolean or an
\* object, parsed without error to a value that is no array (here 5)
Absent == [state |-> "absent", value |-> <<>>]
Corrupt == [state |-> "corrupt", value |-> <<>>]
Json(list) == [state |-> "json", value |-> list]
NotArray == [state |-> "scalar", value |-> 5]
\* the two items, and whether setItem writes (TRUE) or throws, as it does
\* when the quota is exceeded (FALSE)
Store(libs, domains, writable) ==
  [libraries |-> libs, domains |-> domains, writable |-> writable]
EmptyStorage == Store(Absent, Absent, TRUE)
\* what localStorage can hold when the manager is constructed
Storages ==
  {EmptyStorage,
   Store(Absent, Corrupt, TRUE),
   Store(Corrupt, Json(<<"newcdn.example">>), TRUE),
   Store(Absent, Json(<<"unpkg.com", "newcdn.example", "newcdn.example">>), TRUE)}

\* array.includes(x)
Includes(list, x) == \E i \in DOMAIN list : list[i] = x
\* array.indexOf(x), counted from 1; 0 when x is not in the array
IndexOf(list, x) ==
  IF Includes(list, x) THEN CHOOSE i \in DOMAIN list :
        list[i] = x /\ \A j \in 1..(i - 1) : list[j] # x
  ELSE 0
\* array.splice(i, 1)
Splice(list, i) == SubSeq(list, 1, i - 1) \o SubSeq(list, i + 1, Len(list))

RECURSIVE Unique(_)
\* [...new Set(list)]: the first occurrence of each element, in order
Unique(list) ==
  IF list = <<>> THEN <<>>
  ELSE LET front == Unique(SubSeq(list, 1, Len(list) - 1))
           last == list[Len(list)]
       IN IF Includes(front, last) THEN front ELSE Append(front, last)

\* loadFromStorage: the lists it ends with. JSON.parse throws on a corrupt
\* item, `.length` of a library item that is null, and the spread of an
\* origin item that is no array; the catch block resets both lists. A
\* library item that is no array is assigned as it is
loadFromStorage(storage) ==
  IF storage.libraries.state = "corrupt"
     \/ storage.domains.state \in {"corrupt", "scalar"}
    THEN [libraries |-> <<>>, allowedDomains |-> defaultDomains]
    ELSE [libraries |-> storage.libraries.value,
          allowedDomains |-> Unique(defaultDomains \o storage.domains.value)]

\* The operations below work on the manager as a record m of its libraries,
\* allowedDomains, localStorage and nextId, with the events emitted so far,
\* and give the manager they leave and the value they return.
Manager ==
  [libraries |-> libraries, allowedDomains |-> allowedDomains,
   localStorage |-> localStorage, nextId |-> nextId, events |-> <<>>]

\* a failed save that puts the list in memory back to what it was
saveLibrariesOrRevert(m) ==
  IF m.localStorage.writable
    THEN [m EXCEPT !.localStorage.libraries = Json(m.libraries)]
    ELSE [m EXCEPT !.libraries = libraries]
\* saveLibraries: a setItem that throws is caught and logged
saveLibraries(m) ==
  IF m.localStorage.writable
    THEN [m EXCEPT !.localStorage.libraries = Json(m.libraries)]
    ELSE m
\* saveDomains: only the origins that are not defaults are written; a setItem
\* that throws is caught and logged
saveDomains(m) ==
  IF m.localStorage.writable
    THEN [m EXCEPT !.localStorage.domains =
            Json(SelectSeq(m.allowedDomains,
                           LAMBDA d : ~Includes(defaultDomains, d)))]
    ELSE m
emit(m, event, arg) == [m EXCEPT !.events = Append(@, Ev(event, arg))]

isDomainAllowed(domains, domain) == Includes(domains, domain)

validateLibraryUrl(domains, url) ==
  IF url = "" THEN [valid |-> FALSE, error |-> "URL is required",
                    domain |-> "", needsDomainApproval |-> FALSE]
  ELSE IF extractDomain(url) = ""
    THEN [valid |-> FALSE, error |-> "Invalid URL format",
          domain |-> "", needsDomainApproval |-> FALSE]
  ELSE IF ~IsScriptUrl(url)
    THEN [valid |-> FALSE, error |-> "URL must point to a JavaScript file (.js)",
          domain |-> "", needsDomainApproval |-> FALSE]
  ELSE [valid |-> TRUE, error |-> "", domain |-> extractDomain(url),
        needsDomainApproval |-> ~isDomainAllowed(domains, extractDomain(url))]

addDomainUnchecked(m, domain) ==
  [m |-> emit(saveDomains([m EXCEPT !.allowedDomains = Append(@, domain)]),
              DOMAIN_ADDED, domain),
   ret |-> TRUE]
addDomain(m, domain) ==
  IF domain = "" \/ Includes(m.allowedDomains, domain)
    THEN [m |-> m, ret |-> FALSE]
    ELSE [m |-> emit(saveDomains([m EXCEPT !.allowedDomains = Append(@, domain)]),
                     DOMAIN_ADDED, domain),
          ret |-> TRUE]

removeDomain(m, domain) ==
  IF Includes(defaultDomains, domain) \/ ~Includes(m.allowedDomains, domain)
    THEN [m |-> m, ret |-> FALSE]
    ELSE [m |-> emit(saveDomains([m EXCEPT !.allowedDomains =
                                     Splice(@, IndexOf(@, domain))]),
                     DOMAIN_REMOVED, domain),
          ret |-> TRUE]

RECURSIVE addLibrary(_, _, _)
\* LibraryDialog.showDomainTrustDialog, the dialog's listener of the
\* trust-request event: on confirm it adds the origin and retries the add
showDomainTrustDialog(m, domain, url, answer) ==
  IF answer = "confirm"
    THEN addLibrary(addDomain(m, domain).m, url, answer).m
    ELSE m

\* addLibrary(url); emit runs the listeners of the trust-request event before
\* it returns: the manager's own (setupEventListeners: addDomain), then the
\* dialog's when one is attached
addLibrary(m, url, answer) ==
  LET validation == validateLibraryUrl(m.allowedDomains, url) IN
  IF ~validation.valid THEN [m |-> m, ret |-> Failure(validation.error)]
  ELSE IF \E i \in DOMAIN m.libraries : m.libraries[i].url = url
    THEN [m |-> m, ret |-> Failure("Library already added")]
  ELSE IF validation.needsDomainApproval
    THEN LET requested == emit(m, DOMAIN_TRUST_REQUEST, validation.domain)
             listened == addDomain(requested, validation.domain).m
         IN [m |-> showDomainTrustDialog(listened, validation.domain, url, answer),
             ret |-> NeedsApproval(validation.domain)]
  ELSE LET library == Lib(m.nextId, Trim(url), validation.domain, url)
           added == saveLibraries([m EXCEPT !.libraries = Append(@, library),
                                            !.nextId = @ + 1])
       IN [m |-> emit(added, LIBRARY_ADDED, library.url), ret |-> Success]

removeLibrary(m, id) ==
  IF ~\E i \in DOMAIN m.libraries : m.libraries[i].id = id
    THEN [m |-> m, ret |-> FALSE]
    ELSE LET index == CHOOSE i \in DOMAIN m.libraries : m.libraries[i].id = id
             removed == m.libraries[index]
         IN [m |-> emit(saveLibraries([m EXCEPT !.libraries = Splice(@, index)]),
                        LIBRARY_REMOVED, removed.url),
             ret |-> TRUE]

generateCSPDefaultsOnly(domains) ==
  [defaultSrc |-> <<"'self'", "'unsafe-inline'", "'unsafe-eval'", "data:", "blob:">>,
   scriptSrc |-> <<"'self'", "'unsafe-inline'", "'unsafe-eval'">>
                 \o [i \in DOMAIN defaultDomains |-> "https://" \o defaultDomains[i]],
   connectSrc |-> <<"'none'">>]
\* generateCSP: the directives of the policy string, each as its source list
generateCSP(domains) ==
  [defaultSrc |-> <<"'self'", "'unsafe-inline'", "'unsafe-eval'", "data:", "blob:">>,
   scriptSrc |-> <<"'self'", "'unsafe-inline'", "'unsafe-eval'">>
                 \o [i \in DOMAIN domains |-> "https://" \o domains[i]],
   connectSrc |-> <<"'none'">>]

\* no library
NoLib == Lib(-1, "", "", "")
\* a script block of the bundle: the code of the library, or the placeholder
\* of the catch block
Block(lib, kind) == [id |-> lib.id, url |-> lib.url, kind |-> kind]
\* a generateScriptTags call that has not entered its loop
NoBuild ==
  [state |-> "idle", called |-> <<>>, arr |-> <<>>, live |-> FALSE, idx |-> 0,
   cur |-> NoLib, body |-> FALSE, scripts |-> <<>>, listed |-> <<>>]
MOp(name, arg, id, answer, result) ==
  [name |-> name, arg |-> arg, id |-> id, answer |-> answer, result |-> result]

\* the manager after its constructor has loaded the given storage
ManagerConstructed(storage) ==
  /\ libraries = loadFromStorage(storage).libraries
  /\ allowedDomains = loadFromStorage(storage).allowedDomains
  /\ libraryCache = {}
  /\ localStorage = storage
  /\ nextId = 1
  /\ build = <<>>
  /\ mop = MOp("constructor", "", 0, "none", Failure(""))
  /\ mout = <<>>

(* ------------------------------ Init ------------------------------------ *)
\* no document has run its bootstrap program
NoBoot ==
  [secret |-> Forged, ctx |-> NoCtx, pc |-> "none", end |-> "none", sent |-> <<>>]

\* callbacks that can be registered with the emitter
Callbacks == 1..MaxListeners
\* keys of the listener objects the array of an event can hold
Keys == 1..MaxListeners
EOp(name, before, calls, ret) ==
  [name |-> name, before |-> before, calls |-> calls, ret |-> ret]
\* new EventEmitter(): no event has a listener array
EmitterConstructed ==
  /\ listeners = <<>>
  /\ hits = [key \in Keys |-> 0]
  /\ eop = EOp("constructor", <<>>, <<>>, FALSE)

\* the engine after its constructor, whatever the state of the template
Constructed ==
  /\ timeLimit \in {TimeLimitOf(o) : o \in TimeLimitOptions}
  /\ iframe = 1
  /\ nextCtx = 2
  /\ doc = Blank
  /\ scripted = {}
  /\ currentSecret = 0
  /\ nextRun = 1
  /\ killTimer = NULL
  /\ timers = {}
  /\ listening = TRUE
  /\ pendingInit = 0
  /\ pendingText = 0
  /\ pendingExec = <<>>
  /\ out = <<>>
  /\ stale = NoStale
  /\ completed = FALSE
  /\ inbox = <<>>
  /\ posted = 0
  /\ sink = <<>>
  /\ boot = NoBoot
  /\ EmitterConstructed

Init ==
  /\ Constructed
  /\ isLoaded = FALSE
  /\ template = NoTemplate
  /\ fetches = 0
  /\ op = Op("constructor", NoCode, NoEv, FALSE)
  /\ render = NoRender
  /\ ManagerConstructed(EmptyStorage)

\* the engine as the application starts it: constructed, then
\* `await sandbox.initialize()` has ended with the template loaded
InitLoaded ==
  /\ Constructed
  /\ isLoaded = TRUE
  /\ template = getFallbackTemplate
  /\ fetches = 1
  /\ op = Op("initializeDone", NoCode, NoEv, FALSE)
  /\ render = NoRender
  /\ ManagerConstructed(EmptyStorage)

(* --------------------------- TemplateEngine ----------------------------- *)
\* forceReload()
ForceReload ==
  /\ template' = NoTemplate
  /\ isLoaded' = FALSE
  /\ fetches' = 0
  /\ op' = Op("forceReload", NoCode, NoEv, FALSE)
  /\ out' = <<>>
  /\ UNCHANGED <<restVars, timeLimit, engineVars, pendingInit, pendingText,
                 pendingExec, stale, completed>>

\* the template loads in flight
Loads == pendingInit + pendingText + Len(pendingExec)

\* An execute call whose initialize() has ended goes on in a job of the
\* promise queue. Until it has, the event loop takes no task, so no timer
\* fires; other jobs run: callbacks the application chained to its promises,
\* and the continuations of other loads whose fetch or text() promise has
\* settled (a fetch given a path that is no URL is rejected at once)
Resuming == \E i \in DOMAIN pendingExec : pendingExec[i].at = "resume"

\* initialize(), up to its first await: returns when loaded, else starts a fetch
Initialize ==
  /\ op' = Op("initialize", NoCode, NoEv, FALSE)
  /\ out' = <<>>
  /\ IF isLoaded
       THEN UNCHANGED <<pendingInit, fetches>>
       ELSE /\ Loads < MaxPending
            /\ pendingInit' = pendingInit + 1
            /\ fetches' = fetches + 1
  /\ UNCHANGED <<restVars, timeLimit, engineVars, isLoaded, template,
                 pendingText, pendingExec, stale, completed>>

\* the fetch of an initialize() call is answered with an ok response:
\* fetchWithTimeout clears its timer and returns, and initialize() awaits
\* response.text()
Respond ==
  /\ pendingInit > 0
  /\ pendingInit' = pendingInit - 1
  /\ pendingText' = pendingText + 1
  /\ op' = Op("response", NoCode, NoEv, FALSE)
  /\ out' = <<>>
  /\ UNCHANGED <<restVars, timeLimit, engineVars, isLoaded, template,
                 pendingExec, fetches, stale, completed>>

\* validateTemplate: the required markers the text lacks (it throws unless
\* there is none)
MissingMarkers(text) ==
  {m \in TEMPLATE_MARKERS : ~\E i \in DOMAIN text : text[i] = m}
validateTemplate(text) == MissingMarkers(text) = {}

LoadedTemplateUnvalidated(outcome) ==
  IF outcome.kind = "text" THEN outcome.text ELSE getFallbackTemplate
\* the template a load ends with: the fetched text when it arrived and has
\* every marker, else the fallback of the catch block
LoadedTemplate(outcome) ==
  IF outcome.kind = "text" /\ validateTemplate(outcome.text)
    THEN outcome.text
    ELSE getFallbackTemplate

\* isLoaded when initialize() ends: set in the try block (line 74) and in the
\* catch block (line 79)
LoadedAfter(outcome) == TRUE

\* initialize() from its last await to its end: the fetch has failed, or
\* response.text() has given the text or failed
InitializeDone(outcome) ==
  /\ outcome.kind = "timeout" => ~Resuming
  /\ IF outcome \in TextOutcomes
       THEN /\ pendingText > 0
            /\ pendingText' = pendingText - 1
            /\ UNCHANGED pendingInit
       ELSE /\ pendingInit > 0
            /\ pendingInit' = pendingInit - 1
            /\ UNCHANGED pendingText
  /\ template' = LoadedTemplate(outcome)
  /\ isLoaded' = LoadedAfter(outcome)
  /\ op' = Op("initializeDone", outcome.kind, NoEv, FALSE)
  /\ out' = <<>>
  /\ UNCHANGED <<restVars, timeLimit, engineVars, pendingExec, fetches, stale, completed>>

\* spellings of the tag name that /<\/(script)/gi matches
ScriptSpellings ==
  {a \o b \o c \o d \o e \o f :
     a \in {"s", "S"}, b \in {"c", "C"}, c \in {"r", "R"},
     d \in {"i", "I"}, e \in {"p", "P"}, f \in {"t", "T"}}
\* sanitizeCode: `</script`, in any letter case, gets a backslash before its
\* slash and keeps its spelling
sanitizeCode(code) ==
  [i \in DOMAIN code |->
     IF \E w \in ScriptSpellings : code[i] = "</" \o w
       THEN "<\\/" \o (CHOOSE w \in ScriptSpellings : code[i] = "</" \o w)
       ELSE code[i]]

\* the default policy of buildSrcDoc
DefaultCSP ==
  <<"default-src 'self' 'unsafe-inline' 'unsafe-eval' data: blob:; connect-src 'none';">>

\* the grave accent U+0060, written by its escape
GRAVE == "\\u0060"
RECURSIVE Expand(_, _, _, _)
\* what String.prototype.replace inserts for a replacement string: $$ stands
\* for a dollar sign, $& for the matched text, dollar-grave for the text
\* before the match and dollar-apostrophe for the text after it
Expand(value, matched, before, after) ==
  IF value = <<>> THEN <<>>
  ELSE (CASE Head(value) = "$$" -> <<"$">>
          [] Head(value) = "$&" -> <<matched>>
          [] Head(value) = "$" \o GRAVE -> before
          [] Head(value) = "$'" -> after
          [] OTHER -> <<Head(value)>>)
       \o Expand(Tail(value), matched, before, after)

RECURSIVE ReplaceFrom(_, _, _, _)
\* the replacement of the matches at position i and after it
ReplaceFrom(text, marker, value, i) ==
  IF i > Len(text) THEN <<>>
  ELSE (IF text[i] = marker
          THEN Expand(value, marker, SubSeq(text, 1, i - 1),
                      SubSeq(text, i + 1, Len(text)))
          ELSE <<text[i]>>)
       \o ReplaceFrom(text, marker, value, i + 1)
\* text.replace(new RegExp(escapeRegExp(marker), 'g'), value)
Replace(text, marker, value) == ReplaceFrom(text, marker, value, 1)

\* the user code as buildSrcDoc inserts it
WithSourceMap(userCode) ==
  <<"//# sourceURL=user-code.js\n">> \o sanitizeCode(userCode)

\* dynamicCSP || default policy
PolicyOf(dynamicCSP) == IF dynamicCSP = <<>> THEN DefaultCSP ELSE dynamicCSP

\* buildSrcDoc past the isLoaded test: the four replacements, one after the
\* other, each over the result of the one before
buildSrcDoc(text, userCode, secret, libraryScripts, dynamicCSP) ==
  Replace(
    Replace(
      Replace(
        Replace(text, SECRET, secret),
        USER_CODE, WithSourceMap(userCode)),
      LIBRARY_SCRIPTS, libraryScripts),
    DYNAMIC_CSP, PolicyOf(dynamicCSP))

\* the arguments of the buildSrcDoc calls: code, secret and bundle as plain
\* text, with marker-like text, and with the dollar patterns of replace
UserCodes ==
  {<<"x">>, <<"</script">>, <<"</SCRIPT">>, <<"</Script">>, <<DYNAMIC_CSP>>,
   <<SECRET>>,
   <<"$&">>, <<"$$">>, <<"$" \o GRAVE>>, <<"$'">>}
SecretTexts == {<<"5f3a">>, <<USER_CODE>>}
LibraryTexts == {<<>>, <<"lib">>, <<DYNAMIC_CSP>>}
PolicyTexts == {<<>>, <<"script-src 'self'">>, <<SECRET>>}
RenderCalls ==
  [called : {TRUE}, returned : {FALSE}, threw : {FALSE}, result : {<<>>},
   userCode : UserCodes, secret : SecretTexts,
   libraryScripts : LibraryTexts, dynamicCSP : PolicyTexts]

\* templateEngine.buildSrcDoc(userCode, secret, libraryScripts, dynamicCSP)
BuildSrcDoc ==
  /\ render.called /\ ~render.returned
  /\ render' = IF ~isLoaded
       THEN [render EXCEPT !.returned = TRUE, !.threw = TRUE]
       ELSE [render EXCEPT !.returned = TRUE,
               !.result = buildSrcDoc(template, render.userCode, render.secret,
                                      render.libraryScripts, render.dynamicCSP)]
  /\ UNCHANGED <<timeLimit, engineVars, templateVars, op, out, stale,
                 completed, managerVars, channelVars, emitterVars>>

\* a template engine, before or after its load, and one buildSrcDoc call
RenderInit ==
  /\ Constructed
  /\ \/ isLoaded = FALSE /\ template = NoTemplate /\ fetches = 0
     \/ isLoaded = TRUE /\ template \in {getFallbackTemplate, CustomTemplate}
        /\ fetches = 1
  /\ op = Op("constructor", NoCode, NoEv, FALSE)
  /\ render \in RenderCalls
  /\ ManagerConstructed(EmptyStorage)

RenderNext == BuildSrcDoc

RenderSpec == RenderInit /\ [][RenderNext]_vars

requiredMarkersWithoutPolicy == <<SECRET, USER_CODE, LIBRARY_SCRIPTS>>
\* validateTemplate, lines 88-93: the required markers, in the order tested
requiredMarkers == <<SECRET, USER_CODE, DYNAMIC_CSP, LIBRARY_SCRIPTS>>

\* lines 95-97: requiredMarkers.filter(marker => !template.includes(marker))
missingMarkers(text) ==
  SelectSeq(requiredMarkers, LAMBDA marker : ~Includes(text, marker))

\* the tokens of the texts validated: the markers, and a token that differs
\* from a marker by its case only
TemplateTokens == TEMPLATE_MARKERS \cup {"{{secret}}"}
TemplateTexts ==
  UNION {[1..n -> TemplateTokens] : n \in 0..MaxTemplateLen}

\* a validateTemplate call that has not returned
ValidateCall ==
  [called |-> TRUE, returned |-> FALSE, threw |-> FALSE, result |-> <<>>]

\* validateTemplate(): throws when a marker is missing, with the missing
\* markers joined into the message (lines 99-103)
ValidateTemplate ==
  /\ render.called /\ ~render.returned
  /\ render' = [render EXCEPT !.returned = TRUE,
                              !.threw = Len(missingMarkers(template)) > 0,
                              !.result = missingMarkers(template)]
  /\ UNCHANGED <<timeLimit, engineVars, templateVars, op, out, stale,
                 completed, managerVars, channelVars, emitterVars>>

\* a template engine whose fetch has delivered a text, before validation
ValidateInit ==
  /\ Constructed
  /\ timeLimit = DEFAULT_TIMEOUT_MS
  /\ isLoaded = FALSE
  /\ template \in TemplateTexts
  /\ fetches = 1
  /\ op = Op("constructor", NoCode, NoEv, FALSE)
  /\ render = ValidateCall
  /\ ManagerConstructed(EmptyStorage)

ValidateNext == ValidateTemplate

ValidateSpec == ValidateInit /\ [][ValidateNext]_vars

(* ---------------------------- SandboxEngine ----------------------------- *)
\* the handle setTimeout returns: timers are numbered by the arming run
NewTimerId == nextRun

\* records that an execute call was made while the run of doc was in flight:
\* "called" when the call has not replaced the secret, "valid" when it has
Overrun(how) ==
  IF InFlight THEN [secret |-> doc.secret, how |-> how] ELSE stale

\* execute(code) from the syntax check on (lines 144-175); loaded is
\* templateEngine.isLoaded when buildSrcDoc is reached
ExecuteBody(code, loaded) ==
  LET validation == validateSyntax(code) IN
  IF ~validation.valid
    THEN /\ out' = <<Msg("error", <<ValidationString(validation)>>), St("completed")>>
         /\ op' = Op("execute", code, NoEv, FALSE)
         /\ stale' = Overrun("called")
         /\ UNCHANGED <<engineVars, completed>>
    ELSE /\ nextRun <= MaxRuns
         /\ currentSecret' = generateSecret
         /\ nextRun' = nextRun + 1
         /\ stale' = Overrun("valid")
         /\ UNCHANGED <<iframe, nextCtx, listening>>
         /\ IF ~loaded \/ iframe = NoCtx
              THEN \* buildSrcDoc throws, or `this.iframe.srcdoc =` on null
                   /\ op' = Op("execute", code, NoEv, TRUE)
                   /\ out' = <<>>
                   /\ UNCHANGED <<doc, scripted, killTimer, timers, completed>>
              ELSE /\ op' = Op("execute", code, NoEv, FALSE)
                   /\ doc' = [secret |-> currentSecret', code |-> code]
                   /\ scripted' = scripted \cup {iframe}
                   /\ out' = <<St("executing")>>
                   /\ timers' = ArmTimer(timers, killTimer, NewTimerId)
                   /\ killTimer' = NewTimerId
                   /\ completed' = FALSE

\* execute(code) when the template is loaded: runs without suspension
Execute(code) ==
  /\ isLoaded
  /\ ExecuteBody(code, isLoaded)
  /\ UNCHANGED <<restVars, timeLimit, templateVars>>

\* execute(code) when the template is not loaded: awaits initialize()
ExecuteAwait(code) ==
  /\ ~isLoaded
  /\ Loads < MaxPending
  /\ pendingExec' = Append(pendingExec, [code |-> code, at |-> "fetch"])
  /\ fetches' = fetches + 1
  /\ stale' = Overrun("called")
  /\ op' = Op("executeAwait", code, NoEv, FALSE)
  /\ out' = <<>>
  /\ UNCHANGED <<restVars, timeLimit, engineVars, isLoaded, template,
                 pendingInit, pendingText, completed>>

\* the fetch of the initialize() awaited by the i-th waiting execute call is
\* answered with an ok response
ExecuteRespond(i) ==
  /\ i \in DOMAIN pendingExec
  /\ pendingExec[i].at = "fetch"
  /\ pendingExec' = [pendingExec EXCEPT ![i].at = "text"]
  /\ op' = Op("response", pendingExec[i].code, NoEv, FALSE)
  /\ out' = <<>>
  /\ UNCHANGED <<restVars, timeLimit, engineVars, isLoaded, template,
                 pendingInit, pendingText, fetches, stale, completed>>

\* the initialize() awaited by the i-th waiting execute call ends; the call
\* itself goes on in a later job
ExecuteLoaded(i, outcome) ==
  /\ outcome.kind = "timeout" => ~Resuming
  /\ i \in DOMAIN pendingExec
  /\ pendingExec[i].at = IF outcome \in TextOutcomes THEN "text" ELSE "fetch"
  /\ template' = LoadedTemplate(outcome)
  /\ isLoaded' = LoadedAfter(outcome)
  /\ pendingExec' = [pendingExec EXCEPT ![i].at = "resume"]
  /\ op' = Op("initializeDone", outcome.kind, NoEv, FALSE)
  /\ out' = <<>>
  /\ UNCHANGED <<restVars, timeLimit, engineVars, pendingInit, pendingText,
                 fetches, stale, completed>>

\* the i-th waiting execute call goes on after its await, with the syntax
\* check and, for valid code, buildSrcDoc over the template engine as it is
\* by then
ExecuteResume(i) ==
  /\ i \in DOMAIN pendingExec
  /\ pendingExec[i].at = "resume"
  /\ pendingExec' = SubSeq(pendingExec, 1, i - 1) \o
                    SubSeq(pendingExec, i + 1, Len(pendingExec))
  /\ ExecuteBody(pendingExec[i].code, isLoaded)
  /\ UNCHANGED <<restVars, timeLimit, isLoaded, template, pendingInit,
                 pendingText, fetches>>

\* the bound of the exploration on the iframes the application creates:
\* reset() and createIframe() have no guard of their own
CanCreate == nextCtx <= MaxCtx

\* reset()
Reset ==
  /\ DoReset(timers)
  /\ out' = <<St("reset")>>
  /\ op' = Op("reset", NoCode, NoEv, FALSE)
  /\ UNCHANGED <<restVars, timeLimit, scripted, currentSecret, nextRun, listening,
                 templateVars, stale, completed>>

\* createIframe(), called by the application: the iframe is replaced by a
\* new, empty one; the kill timer is left as it is and no callback is made
CreateIframeCall ==
  /\ CreateIframe
  /\ out' = <<>>
  /\ op' = Op("createIframe", NoCode, NoEv, FALSE)
  /\ UNCHANGED <<restVars, timeLimit, killTimer, timers, scripted,
                 currentSecret, nextRun, listening, templateVars, stale,
                 completed>>

\* the run whose kill timer t fires: the secret of the execute call that
\* armed it (secrets and timers are both numbered by that call) and the
\* context the callback replaces
TimedOutRun(t) == [NoEv EXCEPT !.src = iframe, !.secret = t]

\* the kill-timer callback of timer t (lines 171-175)
Timeout(t) ==
  /\ t \in timers
  /\ DoReset(timers \ {t})
  /\ out' = TimeoutCallbacks(timeLimit)
  /\ op' = Op("timeout", NoCode, TimedOutRun(t), FALSE)
  /\ UNCHANGED <<restVars, timeLimit, scripted, currentSecret, nextRun, listening,
                 templateVars, stale, completed>>

\* windows a message event can come from: a window outside the engine, or a
\* context that ever ran a bootstrap program (an empty iframe sends nothing)
Sources == {Outside} \cup scripted
\* secrets an envelope can carry: one embedded in some bootstrap program, the
\* current one, or a made-up one
Secrets == {Forged, currentSecret} \cup (1..(nextRun - 1))
ArrayArgs == [isArray |-> TRUE, items |-> <<"a">>]
ScalarArgs == [isArray |-> FALSE, items |-> <<"a">>]

\* the current context, when it runs a bootstrap program
Active == scripted \cap {iframe}

\* the message events the window can receive: done envelopes from every
\* source with every secret, error envelopes from the current context with
\* every secret and, from the current context with the current secret, a
\* done without the marker and envelopes with each other type, a missing
\* type, or non-array args (the handler tests source, marker and secret
\* before it reads the type, lines 189-194)
Events ==
  [src : Sources, marker : {TRUE}, secret : Secrets,
   type : {"done"}, args : {ArrayArgs}]
  \cup [src : Active, marker : {TRUE}, secret : Secrets,
        type : {"error"}, args : {ArrayArgs}]
  \cup [src : Active, marker : {FALSE}, secret : {currentSecret},
        type : {"done"}, args : {ArrayArgs}]
  \cup [src : Active, marker : {TRUE}, secret : {currentSecret},
        type : Types \ {"done"}, args : {ArrayArgs}]
  \cup [src : Active, marker : {TRUE}, secret : {currentSecret},
        type : {"log"}, args : {ScalarArgs}]

ForwardTwice(ev) ==
  <<Msg(TypeOf(ev), ArgsOf(ev)), Msg(TypeOf(ev), ArgsOf(ev))>>
\* line 216: this.onMessage(type, args)
Forward(ev) == <<Msg(TypeOf(ev), ArgsOf(ev))>>

\* the window dispatches a message event; with a registered listener the
\* handler of lines 188-217 runs
MessageHandler(ev) ==
  /\ op' = Op("message", NoCode, ev, FALSE)
  /\ IF ~listening \/ ~SourceOk(ev) \/ ~Authentic(ev)
       THEN /\ out' = <<>>
            /\ UNCHANGED <<killTimer, timers, completed>>
       ELSE IF TypeOf(ev) = "done"
         THEN /\ killTimer' = NULL
              /\ timers' = ClearKillTimer(timers)
              /\ out' = <<St("completed")>>
              /\ completed' = TRUE
         ELSE /\ out' = Forward(ev)
              /\ UNCHANGED <<killTimer, timers, completed>>
  /\ UNCHANGED <<timeLimit, iframe, nextCtx, doc, scripted, currentSecret,
                 nextRun, listening, templateVars, stale>>

\* a message event from any window, with any envelope
Receive(ev) ==
  /\ ev \in Events
  /\ MessageHandler(ev)
  /\ UNCHANGED restVars

\* setupMessageListener(), called by the application (lines 181-220): the
\* handler registered before, if any, is removed and a new one is registered
SetupMessageListener ==
  /\ listening' = TRUE
  /\ out' = <<>>
  /\ op' = Op("setupMessageListener", NoCode, NoEv, FALSE)
  /\ UNCHANGED <<restVars, timeLimit, iframe, nextCtx, doc, scripted,
                 currentSecret, nextRun, killTimer, timers, templateVars,
                 stale, completed>>

ListenerKept == listening
\* lines 233-236: window.removeEventListener('message', this.messageHandler)
ListenerRemoved == FALSE

\* destroy()
Destroy ==
  /\ killTimer' = NULL
  /\ timers' = ClearKillTimer(timers)
  /\ listening' = ListenerRemoved
  /\ iframe' = NoCtx
  /\ doc' = Blank
  /\ out' = <<>>
  /\ op' = Op("destroy", NoCode, NoEv, FALSE)
  /\ UNCHANGED <<restVars, timeLimit, nextCtx, scripted, currentSecret, nextRun,
                 templateVars, stale, completed>>

\* the engine once its template is loaded
Next ==
  \/ \E code \in Codes : Execute(code)
  \/ CanCreate /\ Reset
  \/ \E t \in 1..MaxRuns : Timeout(t)
  \/ \E ev \in Events : Receive(ev)
  \/ Destroy
  \/ CanCreate /\ CreateIframeCall
  \/ SetupMessageListener

Spec == InitLoaded /\ [][Next]_vars

\* the kill timer fires once its delay has passed
FairSpec == Spec /\ \A t \in 1..MaxRuns : WF_vars(Timeout(t))

\* the codes of the execute calls made while the template loads: one that
\* fails the syntax check and one that passes it
TemplateCodes == {"bad", "ok"}

\* the template engine under every interleaving of initialize, forceReload
\* and execute
TemplateNext ==
  \/ ForceReload
  \/ Initialize
  \/ Respond
  \/ \E outcome \in LoadOutcomes : InitializeDone(outcome)
  \/ \E code \in TemplateCodes : Execute(code)
  \/ \E code \in TemplateCodes : ExecuteAwait(code)
  \/ \E i \in 1..MaxPending : ExecuteRespond(i)
  \/ \E i \in 1..MaxPending, outcome \in LoadOutcomes : ExecuteLoaded(i, outcome)
  \/ \E i \in 1..MaxPending : ExecuteResume(i)

TemplateSpec == Init /\ [][TemplateNext]_vars

\* the kinds of message a bootstrap program sends: console output, an
\* error report, and the completion signal
SendTypes == {"log", "error", "done"}

\* send(type, ...) of the bootstrap program: the envelope with the secret
\* embedded in the document and the arguments as an array of strings (here
\* the number of the message)
Envelope(type, n) ==
  [src |-> iframe, marker |-> TRUE, secret |-> doc.secret, type |-> type,
   args |-> [isArray |-> TRUE, items |-> <<n>>]]

\* a bootstrap program running in the current context posts a message to
\* the parent window. This is the program of the template file
\* (src/ui/sandbox.html, DEFAULT_TEMPLATE_PATH), whose send() gets as far as
\* parent.postMessage; the script of the built-in template is RunScript
PostMessage(type) ==
  /\ iframe \in scripted
  /\ doc # Blank
  /\ posted < MaxPosts
  /\ posted' = posted + 1
  /\ inbox' = Append(inbox, Envelope(type, posted'))
  /\ UNCHANGED <<timeLimit, engineVars, templateVars, op, out, stale,
                 completed, render, managerVars, sink, boot, emitterVars>>

\* the event loop dispatches the oldest queued message event to the handler
Dispatch ==
  /\ inbox # <<>>
  /\ MessageHandler(Head(inbox))
  /\ inbox' = Tail(inbox)
  /\ sink' = sink \o [i \in 1..Len(SelectSeq(out', LAMBDA e : e.cb = "message")) |->
                        [src |-> Head(inbox).src,
                         msg |-> SelectSeq(out', LAMBDA e : e.cb = "message")[i]]]
  /\ UNCHANGED <<render, managerVars, posted, boot, emitterVars>>

\* the engine with the messages of its contexts queued by the event loop
ChannelNext ==
  \/ Execute("ok")
  \/ CanCreate /\ Reset
  \/ \E t \in 1..MaxRuns : Timeout(t)
  \/ \E type \in SendTypes : PostMessage(type)
  \/ Dispatch

ChannelInit == InitLoaded /\ timeLimit = DEFAULT_TIMEOUT_MS

ChannelSpec == ChannelInit /\ [][ChannelNext]_vars

\* how the user code block of the bootstrap program can end: it runs to its
\* end, it throws, or a return statement of the user code leaves the
\* enclosing function (a block that never ends takes no step)
BlockEnds == {"returns", "throws", "exits"}

\* debug() (line 125) calls console.log. Lines 191-201 replace console.log
\* by a function that calls send(), and send() calls debug() (line 176)
\* before it posts. Once the console is replaced, a debug call does not
\* return: the three functions call each other until the stack is
\* exhausted, and no try block on the way catches the RangeError
DebugReturns == FALSE

\* the script gets past the debug call of line 266 to the user code block;
\* the RangeError leaves the script there, and the error listener of line
\* 204, which starts with a debug call, ends the same way
ReachesBlock == DebugReturns

\* the kinds of message the script sends while it runs, in order: what the
\* user code logs, then the error of the catch block (lines 267-272)
ScriptSends(logs, end) ==
  IF ~ReachesBlock THEN <<>>
  ELSE (IF logs THEN <<"log">> ELSE <<>>) \o
       (IF end = "throws" THEN <<"error">> ELSE <<>>)

\* lines 275-278 are reached: setTimeout(function(){ send("done") }, 0)
SchedulesDone(end) == ReachesBlock /\ end # "exits"

\* the queue after the current document has sent messages of these kinds
Posted(kinds) ==
  inbox \o [i \in 1..Len(kinds) |-> Envelope(kinds[i], posted + i)]

\* the iframe loads the document of the run and its script runs as far as
\* it gets: user code block, catch block, scheduling of the done signal
RunScript(logs, end) ==
  /\ iframe \in scripted
  /\ doc # Blank
  /\ boot.secret # doc.secret
  /\ posted + Len(ScriptSends(logs, end)) <= MaxPosts
  /\ inbox' = Posted(ScriptSends(logs, end))
  /\ posted' = posted + Len(ScriptSends(logs, end))
  /\ boot' = [secret |-> doc.secret, ctx |-> iframe,
              pc |-> IF SchedulesDone(end) THEN "scheduled" ELSE "ended",
              end |-> IF ReachesBlock THEN end ELSE "unreached",
              sent |-> ScriptSends(logs, end)]
  /\ UNCHANGED <<timeLimit, engineVars, templateVars, op, out, stale,
                 completed, render, managerVars, sink, emitterVars>>

\* the engine with the bootstrap program of each run
BootNext ==
  \/ \E code \in Codes : Execute(code)
  \/ CanCreate /\ Reset
  \/ \E t \in 1..MaxRuns : Timeout(t)
  \/ \E logs \in BOOLEAN, end \in BlockEnds : RunScript(logs, end)
  \/ Destroy

BootSpec == InitLoaded /\ [][BootNext]_vars

(* ---------------------------- LibraryManager ---------------------------- *)
\* the calls of the sequence that are suspended at an await; the result of
\* a call that has resolved is kept up to the next operation
Suspended(calls) == SelectSeq(calls, LAMBDA b : b.state = "fetching")

\* push and splice change the array the running generateScriptTags loops
\* iterate; clear() and destroy() assign a new array and leave the loops
\* with the old one
InPlace(list) ==
  LET calls == Suspended(build) IN
  [k \in DOMAIN calls |->
     IF calls[k].live THEN [calls[k] EXCEPT !.arr = list] ELSE calls[k]]
Reassigned ==
  LET calls == Suspended(build) IN
  [k \in DOMAIN calls |-> [calls[k] EXCEPT !.live = FALSE]]

\* the manager an operation leaves
Becomes(m) ==
  /\ libraries' = m.libraries
  /\ allowedDomains' = m.allowedDomains
  /\ localStorage' = m.localStorage
  /\ nextId' = m.nextId
  /\ mout' = m.events
  /\ build' = InPlace(m.libraries)

\* addLibrary(url), called directly or by the listener of the library:add
\* event; answer is the user's answer when the trust dialog is shown
AddLibrary(url, answer) ==
  LET r == addLibrary(Manager, url, answer) IN
  /\ answer = "none" \/ validateLibraryUrl(allowedDomains, url).needsDomainApproval
  /\ r.m.nextId <= MaxIds + 1
  /\ Becomes(r.m)
  /\ mop' = MOp("addLibrary", url, 0, answer, r.ret)
  /\ UNCHANGED <<sandboxVars, libraryCache>>

\* removeLibrary(id)
RemoveLibrary(id) ==
  LET r == removeLibrary(Manager, id) IN
  /\ Becomes(r.m)
  /\ mop' = MOp("removeLibrary", "", id, "none", Returned(r.ret))
  /\ UNCHANGED <<sandboxVars, libraryCache>>

\* addDomain(domain)
AddDomain(domain) ==
  LET r == addDomain(Manager, domain) IN
  /\ Becomes(r.m)
  /\ mop' = MOp("addDomain", domain, 0, "none", Returned(r.ret))
  /\ UNCHANGED <<sandboxVars, libraryCache>>

\* removeDomain(domain)
RemoveDomain(domain) ==
  LET r == removeDomain(Manager, domain) IN
  /\ Becomes(r.m)
  /\ mop' = MOp("removeDomain", domain, 0, "none", Returned(r.ret))
  /\ UNCHANGED <<sandboxVars, libraryCache>>

\* clear()
Clear ==
  /\ libraries' = <<>>
  /\ allowedDomains' = defaultDomains
  /\ localStorage' = [localStorage EXCEPT !.libraries = Absent,
                                           !.domains = Absent]
  /\ mout' = <<Ev(LIBRARIES_CLEARED, "")>>
  /\ build' = Reassigned
  /\ mop' = MOp("clear", "", 0, "none", Success)
  /\ UNCHANGED <<sandboxVars, libraryCache, nextId>>

\* loadFromStorage(), called on the constructed manager
LoadFromStorage ==
  /\ libraries' = loadFromStorage(localStorage).libraries
  /\ allowedDomains' = loadFromStorage(localStorage).allowedDomains
  /\ mout' = <<>>
  /\ build' = Reassigned
  /\ mop' = MOp("loadFromStorage", "", 0, "none", Success)
  /\ UNCHANGED <<sandboxVars, libraryCache, localStorage, nextId>>

\* saveLibraries(), called on its own
SaveLibraries ==
  /\ localStorage' = saveLibraries(Manager).localStorage
  /\ mout' = <<>>
  /\ build' = InPlace(libraries)
  /\ mop' = MOp("saveLibraries", "", 0, "none", Success)
  /\ UNCHANGED <<sandboxVars, libraries, allowedDomains, libraryCache, nextId>>

\* saveDomains(), called on its own
SaveDomains ==
  /\ localStorage' = saveDomains(Manager).localStorage
  /\ mout' = <<>>
  /\ build' = InPlace(libraries)
  /\ mop' = MOp("saveDomains", "", 0, "none", Success)
  /\ UNCHANGED <<sandboxVars, libraries, allowedDomains, libraryCache, nextId>>

\* libraryManager.destroy()
ManagerDestroy ==
  /\ libraries' = <<>>
  /\ allowedDomains' = <<>>
  /\ mout' = <<>>
  /\ build' = Reassigned
  /\ mop' = MOp("destroy", "", 0, "none", Success)
  /\ UNCHANGED <<sandboxVars, libraryCache, localStorage, nextId>>

RECURSIVE Loop(_, _, _, _)
\* the for-of loop of generateScriptTags from iterator position idx up to its
\* next await: cached libraries get their block at once, the first library
\* that is not cached is fetched; past the end of the array the call resolves
Loop(b, idx, scripts, cache) ==
  LET arr == IF b.live THEN libraries ELSE b.arr IN
  IF idx >= Len(arr)
    THEN [b EXCEPT !.state = "resolved", !.idx = idx, !.cur = NoLib,
                   !.body = FALSE, !.scripts = scripts, !.arr = <<>>,
                   !.live = FALSE, !.listed = libraries]
  ELSE IF arr[idx + 1].url \in cache
    THEN Loop(b, idx + 1, Append(scripts, Block(arr[idx + 1], "code")), cache)
  ELSE [b EXCEPT !.state = "fetching", !.idx = idx + 1, !.cur = arr[idx + 1],
                 !.body = FALSE, !.scripts = scripts, !.arr = arr]

\* the bound of the exploration on the calls suspended at the same time:
\* generateScriptTags() has no guard of its own
CanBuild == Len(Suspended(build)) < MaxBuilds

\* generateScriptTags(), up to its first await or, with nothing to fetch, to
\* its end; the calls that are suspended stay as they are
GenerateScriptTags ==
  /\ build' = Append(Suspended(build),
                     Loop([NoBuild EXCEPT !.called = libraries, !.live = TRUE],
                          0, <<>>, libraryCache))
  /\ mop' = MOp("generateScriptTags", "", 0, "none", Success)
  /\ mout' = <<>>
  /\ UNCHANGED <<sandboxVars, libraries, allowedDomains, libraryCache,
                 localStorage, nextId>>

\* the fetch of the current library of call k is answered with an ok
\* response, and the call awaits response.text() (line 434)
FetchRespond(k) ==
  /\ k \in DOMAIN build
  /\ build[k].state = "fetching"
  /\ ~build[k].body
  /\ build' = Suspended([build EXCEPT ![k].body = TRUE])
  /\ mop' = MOp("fetchRespond", "", 0, "none", Success)
  /\ mout' = <<>>
  /\ UNCHANGED <<sandboxVars, libraries, allowedDomains, libraryCache,
                 localStorage, nextId>>

\* how the load of a library ends. While the fetch is pending: a response
\* that is not ok, or a rejected fetch. Once an ok response has arrived:
\* the text ("ok"), or a rejected response.text() ("body")
FetchOutcomes == {"ok", "status", "network", "body"}

\* the await call k is suspended at ends, with the text or with an error
\* for the catch block, and the loop of the call goes on; the cache is the
\* one Map of the manager, shared by all calls
FetchDone(k, outcome) ==
  /\ k \in DOMAIN build
  /\ build[k].state = "fetching"
  /\ build[k].body <=> outcome \in {"ok", "body"}
  /\ libraryCache' = IF outcome = "ok" THEN libraryCache \cup {build[k].cur.url}
                                        ELSE libraryCache
  /\ build' =
       Suspended(SubSeq(build, 1, k - 1))
       \o <<Loop(build[k], build[k].idx,
                 Append(build[k].scripts,
                        Block(build[k].cur, IF outcome = "ok" THEN "code"
                                                              ELSE "placeholder")),
                 libraryCache')>>
       \o Suspended(SubSeq(build, k + 1, Len(build)))
  /\ mop' = MOp("fetchDone", outcome, 0, "none", Success)
  /\ mout' = <<>>
  /\ UNCHANGED <<sandboxVars, libraries, allowedDomains, localStorage, nextId>>

\* a manager constructed over each storage content
ManagerInit ==
  /\ Constructed
  /\ timeLimit = DEFAULT_TIMEOUT_MS
  /\ isLoaded = FALSE
  /\ template = NoTemplate
  /\ fetches = 0
  /\ op = Op("constructor", NoCode, NoEv, FALSE)
  /\ render = NoRender
  /\ \E storage \in Storages : ManagerConstructed(storage)

\* the operations on the library list and the trusted origins
ManagerNext ==
  \/ \E url \in Urls, answer \in Answers : AddLibrary(url, answer)
  \/ \E id \in 1..MaxIds : RemoveLibrary(id)
  \/ \E domain \in Domains : AddDomain(domain)
  \/ \E domain \in Domains : RemoveDomain(domain)
  \/ Clear
  \/ ManagerDestroy
  \/ LoadFromStorage
  \/ SaveLibraries
  \/ SaveDomains

ManagerSpec == ManagerInit /\ [][ManagerNext]_vars

\* a manager constructed over each storage content, in a store that takes
\* writes and in one whose every setItem throws
StoreInit ==
  /\ Constructed
  /\ timeLimit = DEFAULT_TIMEOUT_MS
  /\ isLoaded = FALSE
  /\ template = NoTemplate
  /\ fetches = 0
  /\ op = Op("constructor", NoCode, NoEv, FALSE)
  /\ render = NoRender
  /\ \E storage \in Storages, writable \in BOOLEAN :
        ManagerConstructed([storage EXCEPT !.writable = writable])

\* the operations that persist the library list and the trusted origins
StoreNext ==
  \/ \E url \in Urls, answer \in Answers : AddLibrary(url, answer)
  \/ \E id \in 1..MaxIds : RemoveLibrary(id)
  \/ \E domain \in Domains : AddDomain(domain)
  \/ \E domain \in Domains : RemoveDomain(domain)
  \/ Clear

StoreSpec == StoreInit /\ [][StoreNext]_vars

\* a manager constructed over an empty storage
BundleInit ==
  /\ Constructed
  /\ timeLimit = DEFAULT_TIMEOUT_MS
  /\ isLoaded = FALSE
  /\ template = NoTemplate
  /\ fetches = 0
  /\ op = Op("constructor", NoCode, NoEv, FALSE)
  /\ render = NoRender
  /\ ManagerConstructed(EmptyStorage)

\* the bundle builds, interleaved at their awaits with the operations that
\* change the library list
BundleNext ==
  \/ \E url \in Urls : AddLibrary(url, "none")
  \/ \E id \in 1..MaxIds : RemoveLibrary(id)
  \/ Clear
  \/ CanBuild /\ GenerateScriptTags
  \/ \E k \in 1..MaxBuilds : FetchRespond(k)
  \/ \E k \in 1..MaxBuilds, outcome \in FetchOutcomes : FetchDone(k, outcome)

BundleSpec == BundleInit /\ [][BundleNext]_vars

\* fetchWithTimeout's timer: controller.abort() makes the pending fetch
\* reject, and the load ends as "Request timeout after 5000ms"
TimedOut == [kind |-> "timeout", text |-> NoTemplate]
AbortFetch == InitializeDone(TimedOut)

\* the two awaits: the template load and the bundle build, each started by
\* its call and ended by what the network answers
AwaitNext ==
  \/ Initialize
  \/ Respond
  \/ \E outcome \in LoadOutcomes : InitializeDone(outcome)
  \/ \E url \in Urls : AddLibrary(url, "none")
  \/ CanBuild /\ GenerateScriptTags
  \/ \E k \in 1..MaxBuilds : FetchRespond(k)
  \/ \E k \in 1..MaxBuilds, outcome \in FetchOutcomes : FetchDone(k, outcome)

\* The network owes no answer. The only step that is sure to come is the
\* timer armed by fetchWithTimeout; the fetch of generateScriptTags arms none.
AwaitInit == Init /\ timeLimit = DEFAULT_TIMEOUT_MS

AwaitSpec == AwaitInit /\ [][AwaitNext]_vars /\ WF_vars(AbortFetch)

(* ----------------------------- EventEmitter ---------------------------- *)
\* what a registered callback does when it is invoked: nothing more, throw,
\* unsubscribe a callback (itself or another), or emit the same event again
\* (guarded against re-entering itself)
Deeds ==
  [kind : {"plain", "throws", "emit"}, target : {0}]
  \cup [kind : {"off"}, target : Callbacks]

\* the listener object pushed by on(): its callback (with what the callback
\* does) and the once flag; key tells the objects of one array apart, also
\* when they hold the same callback
Listener(cb, once, does, key) ==
  [cb |-> cb, once |-> once, does |-> does, key |-> key]
\* the key of a new listener object: the least one no object of the array has
NewKey(arr) ==
  CHOOSE key \in 1..(Len(arr) + 1) :
    /\ \A i \in DOMAIN arr : arr[i].key # key
    /\ \A smaller \in 1..(key - 1) : \E i \in DOMAIN arr : arr[i].key = smaller

\* off(event, callback) on the listener array: findIndex, then splice
off(arr, cb) ==
  IF \E i \in DOMAIN arr : arr[i].cb = cb
    THEN Splice(arr, CHOOSE i \in DOMAIN arr :
                       arr[i].cb = cb /\ \A j \in 1..(i - 1) : arr[j].cb # cb)
    ELSE arr

RECURSIVE RemoveAt(_, _)
\* listenersToRemove.reverse().forEach(index => listeners.splice(index, 1)),
\* the indexes counted from 0
RemoveAt(arr, indexes) ==
  IF indexes = <<>> THEN arr
  ELSE LET index == indexes[Len(indexes)]
       IN RemoveAt(IF index + 1 <= Len(arr) THEN Splice(arr, index + 1) ELSE arr,
                   SubSeq(indexes, 1, Len(indexes) - 1))

RECURSIVE emitEvent(_)
RECURSIVE ForEach(_, _, _, _)
RECURSIVE Invoke(_, _)
\* listener.callback(...args): s is the emitter while the emit runs (the
\* array, the listeners invoked so far, the callbacks inside their own emit)
Invoke(s, l) ==
  LET called == [s EXCEPT !.log = Append(s.log, l.key)] IN
  CASE l.does.kind = "off" ->
         [called EXCEPT !.arr = off(called.arr, l.does.target)]
    [] l.does.kind = "emit" ->
         IF l.cb \in called.busy THEN called
         ELSE [emitEvent([called EXCEPT !.busy = @ \cup {l.cb}]).s
                 EXCEPT !.busy = @ \ {l.cb}]
    [] OTHER -> called

\* listeners.forEach((listener, index) => ...) from index k on: len is the
\* length of the array when forEach started, an index past the end of the
\* array is skipped, and a callback that throws is not noted for removal
ForEach(s, k, len, toRemove) ==
  IF k >= len THEN [s |-> s, toRemove |-> toRemove]
  ELSE IF k + 1 > Len(s.arr) THEN ForEach(s, k + 1, len, toRemove)
  ELSE LET listener == s.arr[k + 1] IN
       ForEach(Invoke(s, listener), k + 1, len,
               IF listener.once /\ listener.does.kind # "throws"
                 THEN Append(toRemove, k) ELSE toRemove)

\* emit(event): false without a listener array, else the loop, the removal
\* of the noted indexes, and true
emitEvent(s) ==
  IF s.arr = <<>> THEN [s |-> s, ret |-> FALSE]
  ELSE LET r == ForEach(s, 0, Len(s.arr), <<>>)
       IN [s |-> [r.s EXCEPT !.arr = RemoveAt(r.s.arr, r.toRemove)],
           ret |-> TRUE]

\* the bound of the exploration on the length of the listener array: on()
\* has no guard of its own
CanRegister == Len(listeners) < MaxListeners

\* on(event, callback, {once}) and once(event, callback): a listener object
\* is pushed, whether or not the callback is registered already (a callback
\* is one function: registered again, it does what it does)
On(cb, once, does) ==
  /\ \A i \in DOMAIN listeners : listeners[i].cb = cb => listeners[i].does = does
  /\ listeners' = Append(listeners, Listener(cb, once, does, NewKey(listeners)))
  /\ hits' = [hits EXCEPT ![NewKey(listeners)] = 0]
  /\ eop' = EOp("on", <<>>, <<>>, FALSE)
  /\ UNCHANGED appVars

\* off(event, callback), also as the unsubscribe function on() returned
Off(cb) ==
  /\ listeners' = off(listeners, cb)
  /\ eop' = EOp("off", <<>>, <<>>, FALSE)
  /\ UNCHANGED <<appVars, hits>>

\* removeAllListeners(event): the entry of the event is deleted
RemoveAllListeners ==
  /\ listeners' = <<>>
  /\ eop' = EOp("removeAllListeners", <<>>, <<>>, FALSE)
  /\ UNCHANGED <<appVars, hits>>

\* the listeners a run of emit invoked, added to the counts
Counted(h, log) ==
  [key \in Keys |->
     LET n == h[key] + Len(SelectSeq(log, LAMBDA x : x = key))
     IN IF n > 2 THEN 2 ELSE n]

\* emit(event), with everything its listeners do before it returns
Emit ==
  LET r == emitEvent([arr |-> listeners, log |-> <<>>, busy |-> {}]) IN
  /\ listeners' = r.s.arr
  /\ hits' = Counted(hits, r.s.log)
  /\ eop' = EOp("emit", listeners, r.s.log, r.ret)
  /\ UNCHANGED appVars

EmitterInit == Init /\ timeLimit = DEFAULT_TIMEOUT_MS

EmitterNext ==
  \/ /\ CanRegister
     /\ \E cb \in Callbacks, once \in BOOLEAN, does \in Deeds : On(cb, once, does)
  \/ \E cb \in Callbacks : Off(cb)
  \/ RemoveAllListeners
  \/ Emit

EmitterSpec == EmitterInit /\ [][EmitterNext]_vars

TypeOK ==
  /\ iframe \in {NoCtx} \cup (1..(nextCtx - 1))
  /\ killTimer \in {NULL} \cup timers
  /\ isLoaded \in BOOLEAN
  /\ completed \in BOOLEAN
  /\ nextId \in 1..(MaxIds + 1)
  /\ Len(libraries) <= MaxIds
  /\ libraryCache \subseteq {Trim(url) : url \in Urls}
  /\ \A k \in DOMAIN build :
        /\ build[k].state \in {"fetching", "resolved"}
        /\ build[k].body \in BOOLEAN
  /\ pendingText \in 0..MaxPending

(* ------------------------------ claims ---------------------------------- *)
Statuses(o) == SelectSeq(o, LAMBDA e : e.cb = "status")
Messages(o) == SelectSeq(o, LAMBDA e : e.cb = "message")
Reported(status) == \E i \in DOMAIN out : out[i] = St(status)

\* C1: an event handed to the message listener is forwarded to the message
\* sink or reported as a status if and only if its source is the content
\* window of the current iframe, its envelope has the marker and its secret
\* is the current secret; with any other secret nothing is delivered,
\* whatever the kind
C1_AcceptedIffAuthentic ==
  (op.name = "message" /\ listening) =>
    ((out # <<>>) <=> (/\ op.ev.src = iframe
                       /\ op.ev.marker
                       /\ op.ev.secret = currentSecret))

\* an error envelope of the active context with the secret of an earlier run
\* has been dropped
C1_Witness ==
  /\ op.name = "message" /\ listening
  /\ op.ev.src = iframe /\ op.ev.marker /\ op.ev.type = "error"
  /\ op.ev.secret \in 1..MaxRuns /\ op.ev.secret # currentSecret
  /\ out = <<>>

\* C2 as stated: once any later execute call has been made while a run was in
\* flight, no message carrying that run's secret is delivered or reported
C2_AnyLaterCallSupersedes ==
  (/\ op.name = "message"
   /\ stale.how # "none"
   /\ op.ev.secret = stale.secret) => out = <<>>

\* C2, amended: once a later execute call whose code passes the syntax
\* pre-parse has generated its secret while a run was in flight, no message
\* carrying that run's secret is delivered or reported
C2_ValidCallSupersedes ==
  (/\ op.name = "message"
   /\ stale.how = "valid"
   /\ op.ev.secret = stale.secret) => out = <<>>

\* a late done message of a superseded run, sent from the reused context, has
\* been dropped
C2_Witness ==
  /\ op.name = "message" /\ listening
  /\ op.ev.src = iframe /\ op.ev.marker /\ op.ev.type = "done"
  /\ stale.how = "valid" /\ op.ev.secret = stale.secret
  /\ out = <<>>

\* C3 as stated: an execute call that installs a bootstrap program installs
\* it into a context that never got one before
C3_NeverReused ==
  [][(op'.name = "execute" /\ out' = <<St("executing")>>)
       => iframe \notin scripted]_vars

\* C3, amended: execute installs into the current context and never
\* replaces it (each install with a secret different from the one before);
\* the context is replaced, by one never used before and empty, by reset, by
\* the timeout and by a createIframe call of the application only
C3_ReplacedOnlyByReset ==
  [][/\ op'.name = "execute" =>
          /\ iframe' = iframe
          /\ out' = <<St("executing")>> =>
               (doc'.secret # doc.secret /\ iframe' \in scripted')
     /\ op'.name \in {"reset", "timeout", "createIframe"} =>
          /\ iframe' \notin 1..(nextCtx - 1)
          /\ iframe' # NoCtx
          /\ doc' = Blank
     /\ (iframe' # iframe /\ iframe' # NoCtx) =>
          op'.name \in {"reset", "timeout", "createIframe"}]_vars

\* two runs have been installed into the first context
C3_Witness ==
  /\ op.name = "execute" /\ out = <<St("executing")>>
  /\ iframe = 1 /\ scripted = {1} /\ nextRun = 3

\* C4 as stated: on expiry the status sink gets timeout and then reset, and
\* the message sink gets one error naming the duration
C4_TimeoutThenReset ==
  op.name = "timeout" =>
    /\ Statuses(out) = <<St("timeout"), St("reset")>>
    /\ Messages(out) = <<Msg("error", <<TimeoutText(timeLimit)>>)>>

\* C4, amended: on expiry the message sink gets exactly one synthesized
\* error naming the configured duration, then the status sink gets reset
\* (from the automatic reset) and then timeout; timeout is reported by the
\* timer callback only
C4_ResetThenTimeout ==
  /\ op.name = "timeout" =>
       /\ Statuses(out) = <<St("reset"), St("timeout")>>
       /\ Messages(out) = <<Msg("error", <<TimeoutText(timeLimit)>>)>>
       /\ out[1].cb = "message"
  /\ Reported("timeout") => op.name = "timeout"

\* the timer of a run has expired with no done accepted for it
C4_Witness ==
  /\ op.name = "timeout" /\ ~completed /\ timeLimit = 1000
  /\ killTimer = NULL /\ doc = Blank

\* C5: a run that has had its completed status reported gets no second one
C5_ExactlyOneCompleted ==
  [][(op'.name = "message" /\ out' = <<St("completed")>>) => ~completed]_vars

\* C6: validateSyntax gives valid = false for every code that fails the
\* parse, and execute of such a code reports one error message and then
\* completed, and leaves the context, the installed document, the secret and
\* the timer as they were
C6_SyntaxErrorShortCircuit ==
  /\ \A code \in Codes : ParseFails(code) => ~validateSyntax(code).valid
  /\ [][(op'.name = "execute" /\ ParseFails(op'.code)) =>
          /\ ~op'.threw
          /\ out' = <<Msg("error", <<"SyntaxError: Unexpected token">>),
                      St("completed")>>
          /\ UNCHANGED <<iframe, nextCtx, doc, scripted, currentSecret,
                         nextRun, killTimer, timers>>]_vars

\* a code that fails the parse has been executed while a run was in flight
C6_Witness ==
  /\ op.name = "execute" /\ op.code = "bad"
  /\ killTimer # NULL /\ doc # Blank
  /\ out = <<Msg("error", <<"SyntaxError: Unexpected token">>), St("completed")>>

\* C7: every execute call is eventually followed by a terminal status,
\* completed or timeout, also when a later execute supersedes it or a reset
\* interrupts it.
C7_AlwaysTerminalStatus ==
  (op.name = "execute") ~> (Reported("completed") \/ Reported("timeout"))

\* C8: a context whose program never stops is eventually replaced or destroyed
C8_HungAlwaysKilled ==
  \A c \in 1..(MaxCtx + MaxRuns) :
    (iframe = c /\ doc.code = "loop") ~> (iframe # c)

\* C9: reset is enabled in every state (idle, executing, completed, timed
\* out, destroyed); it leaves no pending timer and an empty context with a
\* handle never used before; an event from any other context than the
\* current one is not accepted
C9_ResetFresh ==
  /\ [](ENABLED Reset)
  /\ [][op'.name = "reset" =>
          /\ killTimer' = NULL /\ timers' = {}
          /\ doc' = Blank
          /\ iframe' # NoCtx /\ iframe' \notin 1..(nextCtx - 1)]_vars
  /\ []((op.name = "message" /\ op.ev.src # iframe) => out = <<>>)

\* after a timeout or a reset and then one more reset, an envelope of a
\* replaced context carrying the secret that is still the current one has
\* been dropped
C9_Witness ==
  /\ op.name = "message" /\ listening
  /\ op.ev.src \in scripted /\ op.ev.src # iframe /\ iframe >= 3
  /\ op.ev.marker /\ op.ev.secret = currentSecret
  /\ doc = Blank
  /\ out = <<>>

\* C10: at most one template fetch is started between two forceReload calls
C10_AtMostOneFetch == fetches <= 1

\* C11: whatever way a template load ends, initialize() does not throw and
\* leaves the engine loaded; in every state a loaded engine holds a template
\* with the four markers
C11_LoadedHasAllMarkers ==
  /\ \A outcome \in LoadOutcomes : validateTemplate(LoadedTemplate(outcome))
  /\ isLoaded => MissingMarkers(template) = {}
  /\ op.name = "initializeDone" => (isLoaded /\ ~op.threw)

\* a load whose file arrived without one of the markers has ended with the
\* fallback template
C11_Witness ==
  /\ op.name = "initializeDone" /\ op.code = "text"
  /\ isLoaded /\ template = getFallbackTemplate

\* the text the four markers stand for when each occurrence in the template
\* is replaced by its value and nothing else is touched
LiteralValue(token, userCode, secret, libraryScripts, dynamicCSP) ==
  IF token = SECRET THEN secret
  ELSE IF token = USER_CODE THEN WithSourceMap(userCode)
  ELSE IF token = LIBRARY_SCRIPTS THEN libraryScripts
  ELSE IF token = DYNAMIC_CSP THEN PolicyOf(dynamicCSP)
  ELSE <<token>>

RECURSIVE LiteralRender(_, _, _, _, _)
LiteralRender(text, userCode, secret, libraryScripts, dynamicCSP) ==
  IF text = <<>> THEN <<>>
  ELSE LiteralValue(Head(text), userCode, secret, libraryScripts, dynamicCSP)
       \o LiteralRender(Tail(text), userCode, secret, libraryScripts, dynamicCSP)

\* C12: the rendered text is the template with every occurrence of each
\* marker replaced by its value, the values themselves appearing unchanged
C12_LiteralNoRecursion ==
  (render.called /\ render.returned /\ ~render.threw) =>
    render.result = LiteralRender(template, render.userCode, render.secret,
                                  render.libraryScripts, render.dynamicCSP)

Range(list) == {list[i] : i \in DOMAIN list}
Count(list, x) == Cardinality({i \in DOMAIN list : list[i] = x})
Emitted(event) == Cardinality({i \in DOMAIN mout : mout[i].event = event})
\* the origin of the url is not trusted
Untrusted(url) == ~Includes(allowedDomains, extractDomain(url))
\* addLibrary gets past its validation and its duplicate test with this url
Fresh(url) ==
  /\ validateLibraryUrl(allowedDomains, url).valid
  /\ ~\E i \in DOMAIN libraries : libraries[i].url = url

\* C13: an addLibrary call with a url of an untrusted origin, with no user
\* confirming a trust dialog, leaves the trusted origins as they were
C13_ApprovalNeverImplicit ==
  [][(/\ mop'.name = "addLibrary"
      /\ mop'.answer # "confirm"
      /\ Untrusted(mop'.arg)) => allowedDomains' = allowedDomains]_vars

\* C14: addLibrary with a valid script url of an untrusted origin returns the
\* needs-approval result naming the origin, emits exactly one trust-request
\* event and adds no reference; once the origin is trusted, the retry of the
\* same call returns success and the reference is in the list
C14_TrustScenario ==
  [][mop'.name = "addLibrary" =>
       /\ (Fresh(mop'.arg) /\ Untrusted(mop'.arg)) =>
            /\ mop'.result = NeedsApproval(extractDomain(mop'.arg))
            /\ Emitted(DOMAIN_TRUST_REQUEST)' = 1
            /\ libraries' = libraries
            /\ Emitted(LIBRARY_ADDED)' = 0
       /\ (/\ mop.name = "addLibrary" /\ mop.result.needsApproval
           /\ mop'.arg = mop.arg /\ ~Untrusted(mop'.arg)) =>
            /\ mop'.result = Success
            /\ \E i \in DOMAIN libraries' :
                  libraries'[i].url = Trim(mop'.arg)]_vars

\* C15: addLibrary with the url argument of a call that added a reference
\* still in the list fails, emits no added event and leaves the list as it was
C15_DuplicateRejected ==
  [][(/\ mop'.name = "addLibrary"
      /\ \E i \in DOMAIN libraries : libraries[i].arg = mop'.arg) =>
       (/\ ~mop'.result.success
        /\ Emitted(LIBRARY_ADDED)' = 0
        /\ libraries' = libraries)]_vars

\* C16: every default origin is trusted in every state, and removeDomain of a
\* default origin returns false
C16_DefaultsAlwaysTrusted ==
  /\ \A i \in DOMAIN defaultDomains : Includes(allowedDomains, defaultDomains[i])
  /\ (mop.name = "removeDomain" /\ Includes(defaultDomains, mop.arg)) =>
       ~mop.result.success

\* C17: addDomain of an origin that is trusted returns false, emits nothing
\* and leaves the trusted origins and the stored list as they were; no
\* origin is in the trusted list twice
C17_AddDomainIdempotent ==
  /\ [](\A d \in Range(allowedDomains) : Count(allowedDomains, d) = 1)
  /\ [][(mop'.name = "addDomain" /\ Includes(allowedDomains, mop'.arg)) =>
          /\ ~mop'.result.success
          /\ mout' = <<>>
          /\ allowedDomains' = allowedDomains
          /\ localStorage' = localStorage]_vars

\* an origin added by the user has been added a second time
C17_Witness ==
  /\ mop.name = "addDomain" /\ mop.arg = "newcdn.example"
  /\ ~mop.result.success /\ mout = <<>>
  /\ Count(allowedDomains, "newcdn.example") = 1

\* C18: the script sources of the policy are 'self', the two unsafe keywords
\* and the trusted origins, 'self' and each trusted origin once; they are a
\* function of the set of trusted origins, whatever their order; the policy
\* allows no connection
C18_PolicyMatchesTrust ==
  LET csp == generateCSP(allowedDomains) IN
  /\ Count(csp.scriptSrc, "'self'") = 1
  /\ \A d \in Range(allowedDomains) : Count(csp.scriptSrc, "https://" \o d) = 1
  /\ Range(csp.scriptSrc) =
       {"'self'", "'unsafe-inline'", "'unsafe-eval'"}
       \cup {"https://" \o d : d \in Range(allowedDomains)}
  /\ csp.connectSrc = <<"'none'">>

\* two origins have been added by the user, the one that was added last
\* standing first in the other order of adding them
C18_Witness ==
  /\ mop.name = "addDomain" /\ mop.arg = "newcdn.example" /\ mop.result.success
  /\ IndexOf(allowedDomains, "other.example") > 0
  /\ IndexOf(allowedDomains, "other.example")
       < IndexOf(allowedDomains, "newcdn.example")
  /\ \A i \in DOMAIN defaultDomains : Includes(allowedDomains, defaultDomains[i])

Ids(list) == [i \in DOMAIN list |-> list[i].id]

\* C19: a bundle build resolves with one block per reference, in the order of
\* the list (the list as it was when the build was called, or as it is when
\* the build resolves)
C19_OneBlockPerReference ==
  \A k \in DOMAIN build :
     build[k].state = "resolved" =>
        \/ Ids(build[k].scripts) = Ids(build[k].called)
        \/ Ids(build[k].scripts) = Ids(build[k].listed)

\* C20: after clear() the content cache holds no entry
C20_ClearEmptiesCache == mop.name = "clear" => libraryCache = {}


\* C21: after loading, each persisted value that is valid JSON is loaded even
\* when the other one is corrupt or absent: the library list is the persisted
\* list, and every persisted user origin is trusted along with the defaults.
C21_ValidValueStillLoaded ==
  mop.name = "constructor" =>
    /\ \A i \in DOMAIN defaultDomains : Includes(allowedDomains, defaultDomains[i])
    /\ localStorage.libraries.state = "json" =>
         libraries = localStorage.libraries.value
    /\ localStorage.domains.state = "json" =>
         \A i \in DOMAIN localStorage.domains.value :
            Includes(allowedDomains, localStorage.domains.value[i])


\* C22: the messages forwarded from one context reach the message sink in the
\* order the context sent them, none twice, and each one during the handling
\* of its own message event (nothing is held back and forwarded later).
C22_DeliveredInOrder ==
  /\ \A i, j \in DOMAIN sink :
       (i < j /\ sink[i].src = sink[j].src) =>
          sink[i].msg.args[1] < sink[j].msg.args[1]
  /\ (op.name = "message" /\ Messages(out) # <<>>) =>
       /\ Messages(out) = <<Msg(TypeOf(op.ev), op.ev.args.items)>>
       /\ sink # <<>>
       /\ sink[Len(sink)] = [src |-> op.ev.src, msg |-> Messages(out)[1]]
C22_Witness ==
  /\ Len(sink) >= 2
  /\ sink[1].src = sink[2].src
  /\ inbox # <<>>


\* C23: a pending initialize() eventually ends, and a generateScriptTags()
\* call waiting for a library fetch eventually goes on, whatever the network
\* does.
C23_SuspensionsBounded ==
  /\ (pendingInit + pendingText > 0) ~> (pendingInit + pendingText = 0)
  /\ (Suspended(build) # <<>>) ~> (Suspended(build) = <<>>)


\* the listener array holds the listener object l
Registered(arr, l) == \E i \in DOMAIN arr : arr[i].key = l.key
\* some callback of the array unsubscribes cb when invoked
Unsubscribed(arr, cb) ==
  \E i \in DOMAIN arr : arr[i].does.kind = "off" /\ arr[i].does.target = cb

\* C24: a callback registered with once() is invoked at most once, whatever
\* emits follow or are issued by listeners during an emit, and an emit never
\* removes a listener that is neither a once listener nor unsubscribed by a
\* callback.
C24_OnceAtMostOnce ==
  /\ \A i \in DOMAIN listeners : listeners[i].once => hits[listeners[i].key] <= 1
  /\ eop.name = "emit" =>
       \A i \in DOMAIN eop.before :
          /\ eop.before[i].once => hits[eop.before[i].key] <= 1
          /\ (~eop.before[i].once /\ ~Unsubscribed(eop.before, eop.before[i].cb))
                => Registered(listeners, eop.before[i])

\* C25: emit invokes the listeners registered when it is called, each once and
\* in registration order, also when a listener throws or unsubscribes a
\* listener during the emit (no listener emitting again), and returns true
\* exactly when the event had listeners.
C25_EveryListenerInOrder ==
  (eop.name = "emit" /\ \A i \in DOMAIN eop.before : eop.before[i].does.kind # "emit")
    => /\ eop.calls = [i \in DOMAIN eop.before |-> eop.before[i].key]
       /\ eop.ret = (eop.before # <<>>)


\* the message event of the step passes the source, marker and secret checks
\* of the engine as it is before the step
PassesChecks ==
  /\ op'.name = "message"
  /\ listening
  /\ op'.ev.src = iframe
  /\ op'.ev.marker
  /\ op'.ev.secret = currentSecret
\* the kind and the args of the envelope of the step: a missing kind counts
\* as log, args that are no array count as an array of one
KindOfStep == IF op'.ev.type = NoType THEN "log" ELSE op'.ev.type
ArgsOfStep ==
  IF op'.ev.args.isArray THEN op'.ev.args.items ELSE <<op'.ev.args.items[1]>>

\* C26: an accepted done cancels the pending timer, empties the timer handle,
\* reports completed and forwards nothing; an accepted message of another kind
\* is forwarded as (kind, args), reports no status and leaves the timer, the
\* secret and the context alone.
C26_DoneCancelsOthersForward ==
  [][PassesChecks =>
       IF KindOfStep = "done"
         THEN /\ killTimer' = NULL
              /\ timers' = timers \ {killTimer}
              /\ out' = <<St("completed")>>
         ELSE /\ out' = <<Msg(KindOfStep, ArgsOfStep)>>
              /\ UNCHANGED <<killTimer, timers, currentSecret, iframe, doc>>]_vars
\* a done of the installed run has been accepted and its timer is gone
C26_Witness ==
  /\ op.name = "message" /\ op.ev.type = "done"
  /\ op.ev.src = iframe /\ op.ev.secret = doc.secret
  /\ out = <<St("completed")>>
  /\ killTimer = NULL /\ timers = {}

\* C27: a message that fails the source, marker or secret check makes no
\* callback and leaves the secret, the context and the timer as they were.
C27_DroppedSilently ==
  [][(op'.name = "message" /\ ~PassesChecks) =>
       /\ out' = <<>>
       /\ UNCHANGED <<currentSecret, iframe, doc, killTimer, timers>>]_vars
\* an envelope with the marker and the current secret, sent by a window that
\* is not the current context while a run is in flight, has been dropped
C27_Witness ==
  /\ op.name = "message" /\ listening
  /\ op.ev.src # iframe /\ op.ev.marker /\ op.ev.secret = currentSecret
  /\ killTimer # NULL
  /\ out = <<>>

\* C28: every pair handed to the message sink has a kind among log, info,
\* warn and error.
C28_ForwardedKinds ==
  \A i \in DOMAIN out :
     out[i].cb = "message" => out[i].type \in {"log", "info", "warn", "error"}

\* C29: at most one kill timer is pending, it is the one the handle names, and
\* the handle is empty after an accepted done, a reset, a timeout and destroy.
C29_OneTimer ==
  /\ Cardinality(timers) <= 1
  /\ timers \subseteq {killTimer}
  /\ op.name \in {"reset", "timeout", "destroy"} => (killTimer = NULL /\ timers = {})
  /\ (op.name = "message" /\ out = <<St("completed")>>) =>
        (killTimer = NULL /\ timers = {})
\* an execute call over a run in flight has replaced that run's timer
C29_Witness ==
  /\ op.name = "execute" /\ stale.how = "valid"
  /\ killTimer # NULL /\ timers = {killTimer}
  /\ killTimer > 1

\* the step reports a timeout: the status or the synthesized error
TimeoutReported ==
  \E i \in DOMAIN out' :
     out'[i] \in {St("timeout"), Msg("error", <<TimeoutText(timeLimit)>>)}
\* the kill timer of the run with secret s has fired (every run that gets a
\* timer has a secret of its own)
TimerFired(s) == op.name = "timeout" /\ op.ev.secret = s
\* a done message of the run with secret s has been accepted
DoneAccepted(s) ==
  /\ op.name = "message" /\ op.ev.type = "done"
  /\ op.ev.secret = s
  /\ out # <<>>

\* C30: once a done of the installed run has been accepted, no step reports a
\* timeout until an execute call arms a new timer; and once the timer of a run
\* has fired, no done message of that run is accepted.
C30_DoneAndTimeoutExclusive ==
  /\ [][completed => ~TimeoutReported]_vars
  /\ \A s \in 1..MaxRuns : [](TimerFired(s) => [](~DoneAccepted(s)))
\* a done of the installed run has been accepted, and the engine has been
\* reset since
C30_Witness ==
  /\ completed
  /\ op.name = "reset"
  /\ timers = {}


\* C31: the script of a run gets to its user code block; once the block has
\* ended, by returning or by throwing into the catch block, the done signal
\* is scheduled or sent; a done is the last message of the program, and when
\* the block threw an error message was sent before it.
C31_DoneAfterBlock ==
  /\ boot.pc # "none" => boot.end \in BlockEnds
  /\ boot.end \in {"returns", "throws"} => boot.pc # "ended"
  /\ \A i \in DOMAIN boot.sent :
       boot.sent[i] = "done" =>
          /\ i = Len(boot.sent)
          /\ boot.end \in {"returns", "throws"}
          /\ boot.end = "throws" => \E j \in 1..(i - 1) : boot.sent[j] = "error"


\* C32: under every interleaving of execute, initialize and forceReload, an
\* execute call does not throw (its code valid or not), and a call that has
\* installed a document has rendered it from a loaded template with the
\* four markers.
C32_ExecuteNeverUninitialized ==
  op.name = "execute" =>
    /\ ~op.threw
    /\ out = <<St("executing")>> => (isLoaded /\ MissingMarkers(template) = {})

\* the required markers that do not occur in the template
AbsentMarkers == {m \in TEMPLATE_MARKERS : \A i \in DOMAIN template : template[i] # m}

\* C33: validation fails exactly when one of the four required markers is
\* absent from the template, and the failure names the absent markers, each
\* once, and no other.
C33_FailureNamesMissing ==
  (render.called /\ render.returned) =>
    /\ render.threw <=> AbsentMarkers # {}
    /\ Range(render.result) = AbsentMarkers
    /\ Len(render.result) = Cardinality(AbsentMarkers)
\* a text lacking two markers has failed validation
C33_Witness ==
  /\ render.called /\ render.returned /\ render.threw
  /\ Len(render.result) = 2
  /\ Len(template) = MaxTemplateLen

\* C34: destroy() leaves no timer pending and no listener; whatever reset,
\* execute or other call follows that does not register a listener (only the
\* constructor and setupMessageListener do), the engine stays without one,
\* and without a listener no message event from any context makes a callback
C34_DeafAfterDestroy ==
  [][/\ op'.name = "destroy" =>
          (killTimer' = NULL /\ timers' = {} /\ ~listening')
     /\ (~listening /\ op'.name # "setupMessageListener") => ~listening'
     /\ (~listening /\ op'.name = "message") => out' = <<>>]_vars
\* after destroy, reset and execute, a message of the new run with the marker
\* and the current secret has been dropped
C34_Witness ==
  /\ op.name = "message" /\ ~listening
  /\ op.ev.src = iframe /\ op.ev.marker /\ op.ev.secret = currentSecret
  /\ killTimer # NULL
  /\ out = <<>>


\* C35: every reference of the library list has an origin in the trusted set.
C35_ListedOriginsTrusted ==
  \A i \in DOMAIN libraries : Includes(allowedDomains, libraries[i].domain)


\* C36: no two references of the library list have the same stored url.
C36_StoredUrlsDistinct ==
  \A i, j \in DOMAIN libraries :
     i # j => libraries[i].url # libraries[j].url



\* the manager before the step, in a store that takes writes
InWorkingStore == [Manager EXCEPT !.localStorage.writable = TRUE]
\* what the operation o does, and returns, in a store that takes writes
Intended(o) ==
  CASE o.name = "addLibrary" ->
         [m |-> addLibrary(InWorkingStore, o.arg, o.answer).m,
          ret |-> addLibrary(InWorkingStore, o.arg, o.answer).ret]
    [] o.name = "removeLibrary" ->
         [m |-> removeLibrary(InWorkingStore, o.id).m,
          ret |-> Returned(removeLibrary(InWorkingStore, o.id).ret)]
    [] o.name = "addDomain" ->
         [m |-> addDomain(InWorkingStore, o.arg).m,
          ret |-> Returned(addDomain(InWorkingStore, o.arg).ret)]
    [] o.name = "removeDomain" ->
         [m |-> removeDomain(InWorkingStore, o.arg).m,
          ret |-> Returned(removeDomain(InWorkingStore, o.arg).ret)]
PersistingOps == {"addLibrary", "removeLibrary", "addDomain", "removeDomain"}

\* C37: when every write to the store throws, addLibrary, removeLibrary,
\* addDomain and removeDomain return what they return with a working store,
\* emit the same events, and leave the library list and the trusted origins
\* at the new value; only the store keeps what it held.
C37_SaveFailureKeptInMemory ==
  [][(~localStorage.writable /\ mop'.name \in PersistingOps) =>
       /\ mop'.result = Intended(mop').ret
       /\ mout' = Intended(mop').m.events
       /\ libraries' = Intended(mop').m.libraries
       /\ allowedDomains' = Intended(mop').m.allowedDomains
       /\ localStorage' = localStorage]_vars

\* in a store whose writes throw, a library of an origin the user approved
\* has been added: the origin is trusted, the library is listed, both events
\* were emitted, and the store holds neither
C37_Witness ==
  /\ ~localStorage.writable
  /\ mop.name = "addLibrary" /\ mop.answer = "confirm"
  /\ mop.result = NeedsApproval("newcdn.example")
  /\ Includes(allowedDomains, "newcdn.example")
  /\ \E i \in DOMAIN libraries : libraries[i].domain = "newcdn.example"
  /\ Emitted(LIBRARY_ADDED) = 1 /\ Emitted(DOMAIN_ADDED) = 1
  /\ localStorage.libraries = Absent /\ localStorage.domains = Absent

\* the origins the store holds that are defaults
PersistedDefaults(storage) ==
  {i \in DOMAIN storage.domains.value :
      Includes(defaultDomains, storage.domains.value[i])}

\* C38: with a working store, a manager loaded from the store has the library
\* list and the trusted set of the running manager after every operation, and
\* no origin list the manager writes holds a default origin.
C38_ReloadGivesSameState ==
  /\ [](localStorage.writable =>
          /\ loadFromStorage(localStorage).libraries = libraries
          /\ Range(loadFromStorage(localStorage).allowedDomains)
               = Range(allowedDomains))
  /\ [][(localStorage.writable /\ localStorage'.domains # localStorage.domains)
          => PersistedDefaults(localStorage') = {}]_vars

====
